---------------------------- MODULE Spec2Model ----------------------------
(***************************************************************************)
(* Powerwall polling service: the device session manager                   *)
(* (powerwall_service/powerwall_client.py, PowerwallPoller) and the        *)
(* asynchronous poll scheduler (powerwall_service/service.py,              *)
(* PowerwallService).                                                      *)
(*                                                                         *)
(* Specifications:                                                         *)
(*   SpecBackoff  direct calls of _ensure_connection / close with a clock  *)
(*   SpecPoller   fetch_snapshot, read by read, on one thread              *)
(*   Spec         start(), stop(), the polling loop, on-demand polls and   *)
(*                the worker threads they run                              *)
(*   SpecFair     Spec with the event loop, the threads and the timer      *)
(*                making progress                                          *)
(*   SpecRecovery polls one after another on the poll thread, over the     *)
(*                PowerwallPoller of clients.py, with the Wi-Fi rejoin of  *)
(*                the poll-failure handler                                 *)
(*   SpecHealth   polls with their sinks, the broker callbacks and the     *)
(*                health report                                            *)
(*   SpecHealthFair SpecHealth with the polling loop making progress       *)
(*   SpecLive     fetch after fetch while time passes and the gateway may  *)
(*                come back for good, with the loop and the clock making   *)
(*                progress                                                 *)
(*   SpecReport   _update_state and get_health_report on two threads,      *)
(*                statement by statement                                   *)
(***************************************************************************)
EXTENDS Integers, Sequences, FiniteSets, TLC

VARIABLES
    now,        \* time.monotonic(), in seconds
    poller,     \* the PowerwallPoller object's fields
    call,       \* the fetch_snapshot call in progress on the poller's thread
    last,       \* outcome of the last completed poller operation (observer)
    failGen,    \* handle creations counted when a fetch last failed, and the
                \* current run of auth failures (observer)
    background_task, \* PowerwallService._background_task is not None
    stop_event, \* PowerwallService._stop_event is set
    poll_lock,  \* PowerwallService._poll_lock: holder and FIFO waiters
    threads,    \* worker threads running _poll_once_blocking
    loop,       \* the task running _run_loop
    od,         \* a caller of poll_once / live_snapshot outside the loop
    life,       \* the caller of start() and stop()
    svc,        \* the service's poller handle and stored polling state
    mqtt_client, \* MQTTPublisher._client is not None
    mono,       \* time.monotonic() as the service's poll thread reads it
    cpoller,    \* the fields of the PowerwallPoller of clients.py
    recovery,   \* the service's Wi-Fi rejoin fields and stored errors
    obs,        \* what the last polls did (observer)
    gateway,    \* what the device does when called: "unknown" (anything)
                \* or "reachable" (every call answers)
    updating,   \* the _update_state call in progress on the event loop
    monitor     \* the get_health_report call in progress on the health
                \* monitor's worker thread

pollerVars == <<now, poller, call, last, failGen>>

svcVars == <<background_task, stop_event, poll_lock, threads, loop, od, life,
             svc, mqtt_client>>

recVars == <<mono, cpoller, recovery, obs>>

envVars == <<gateway>>

monVars == <<updating, monitor>>

vars == <<now, poller, call, last, failGen, background_task, stop_event,
          poll_lock, threads, loop, od, life, svc, mqtt_client,
          mono, cpoller, recovery, obs, gateway, updating, monitor>>

---------------------------------------------------------------------------
(* Bounds of the model *)

\* seconds the clock advances in one step
TickSeconds == 30
\* the clock is followed this many seconds past the last connection attempt
MaxIdle == 330
\* consecutive connection failures explored by SpecBackoff
MaxBackoffFailures == 20
\* consecutive connection failures explored by SpecPoller
MaxFailures == 2
\* Powerwall objects constructed in one run of SpecPoller
MaxGen == 2
\* last clock value of SpecPoller, in seconds
MaxClock == 60
\* Powerwall objects constructed in one run of SpecBackoff
MaxBackoffGen == 1

\* worker threads that can run _poll_once_blocking at one time
MaxThreads == 2
\* the observer's count of auth failures in a row is kept up to this value
MaxAuthRun == 4
\* calls of start()
MaxStarts == 2
\* _consecutive_failures is counted up to this value
MaxConsecutive == 2
\* last clock value of SpecRecovery, in seconds
MaxMono == 600
\* seconds between two polls of SpecRecovery that are not back to back
PollSeconds == 60
\* consecutive connection failures explored by SpecRecovery
MaxRecFailures == 3
\* failed polls in a row explored by SpecRecovery and SpecHealth
MaxPollFailures == 4
\* values of time.monotonic() when the service is constructed
BootClock == {120, 300}

---------------------------------------------------------------------------
(* Program constants (PowerwallPoller.__init__) *)

max_auth_failures == 3
backoff_base == 30
backoff_max == 300
max_client_errors == 5
\* PowerwallService.__init__
wifi_retry_seconds == 300

NoHandle == 0

Min(a, b) == IF a < b THEN a ELSE b

---------------------------------------------------------------------------
(* Errors.  A raw error raised by the device library carries two signals,  *)
(* the ones _is_connection_error and _is_auth_error look for along its     *)
(* cause/context chain: "conn" (a transport error), "auth" (401/403 text   *)
(* or status on a non-transport error), "both" (an HTTP 401/403 transport  *)
(* error) and "other" (neither).                                           *)

ErrKinds == {"conn", "auth", "both", "other"}

is_connection_error(e) == e \in {"conn", "both"}

is_auth_error(e) == e \in {"auth", "both"}

Unavailable == "PowerwallUnavailableError"

---------------------------------------------------------------------------
(* PowerwallPoller.  powerwall is NoHandle (None) or the number of the     *)
(* pypowerwall.Powerwall object held; generation counts the objects        *)
(* constructed so far, so every object has a number of its own.            *)

PollerInit ==
    [ powerwall |-> NoHandle,
      consecutive_auth_failures |-> 0,
      consecutive_connection_failures |-> 0,
      last_connection_attempt |-> 0,
      client_error_count |-> 0,
      generation |-> 0 ]

\* close() letting a failure of close_session() escape
close_raising(p, sess) ==
    IF p.powerwall # NoHandle /\ sess = "raises"
    THEN [poller |-> p, exc |-> "other", session_closed |-> TRUE]
    ELSE [poller |-> [p EXCEPT !.powerwall = NoHandle,
                               !.consecutive_auth_failures = 0,
                               !.client_error_count = 0],
          exc |-> "none", session_closed |-> p.powerwall # NoHandle]

\* close() forgetting the connection failures as well
close_resetting_backoff(p, sess) ==
    [ poller |-> [p EXCEPT !.powerwall = NoHandle,
                           !.consecutive_auth_failures = 0,
                           !.client_error_count = 0,
                           !.consecutive_connection_failures = 0,
                           !.last_connection_attempt = 0],
      exc |-> "none",
      session_closed |-> p.powerwall # NoHandle ]

\* close() leaving the auth failure count
close_keeping_auth_failures(p, sess) ==
    [ poller |-> [p EXCEPT !.powerwall = NoHandle,
                           !.client_error_count = 0],
      exc |-> "none",
      session_closed |-> p.powerwall # NoHandle ]

\* close(): sess is what client.close_session() does ("ok" or "raises");
\* a failure of it is logged and swallowed.
close(p, sess) ==
    [ poller |-> [p EXCEPT !.powerwall = NoHandle,
                           !.consecutive_auth_failures = 0,
                           !.client_error_count = 0],
      exc |-> "none",
      session_closed |-> p.powerwall # NoHandle ]

\* the backoff starting at its cap and doubling from there
backoff_time_from_max(failures) ==
    backoff_max * (2 ^ failures)

\* the backoff without its cap
backoff_time_uncapped(failures) ==
    backoff_base * (2 ^ (failures - 1))

\* base * 2^(failures-1), capped at max
backoff_time(failures) ==
    Min(backoff_base * (2 ^ (failures - 1)), backoff_max)

\* a rejected call that restarts the backoff window
backoff_rejected_restamping(p, t) ==
    [poller |-> [p EXCEPT !.last_connection_attempt = t],
     exc |-> Unavailable, attempted |-> FALSE]

\* _ensure_connection inside its backoff window: it raises and attempts nothing
backoff_rejected(p, t) ==
    [poller |-> p, exc |-> Unavailable, attempted |-> FALSE]

\* _ensure_connection before its backoff test, closing nothing
ensure_connection_teardown_leaking(p, force_reconnect, sess) ==
    [poller |-> p, closes |-> 0]

\* _ensure_connection before its backoff test, past the return on a held
\* handle: close() when forced, and close() again if a handle is still
\* held.  closes counts the calls of close_session().
ensure_connection_teardown(p, force_reconnect, sess) ==
    LET c1 == IF force_reconnect THEN close(p, sess)
              ELSE [poller |-> p, session_closed |-> FALSE]
        c2 == IF c1.poller.powerwall # NoHandle THEN close(c1.poller, sess)
              ELSE [poller |-> c1.poller, session_closed |-> FALSE]
    IN  [poller |-> c2.poller,
         closes |-> (IF c1.session_closed THEN 1 ELSE 0)
                    + (IF c2.session_closed THEN 1 ELSE 0)]

\* _ensure_connection stamping _last_connection_attempt after a successful
\* creation as well
ensure_connection_stamping_success(p, force_reconnect, t, conn, sess) ==
    IF ~force_reconnect /\ p.powerwall # NoHandle
    THEN [poller |-> p, exc |-> "none", attempted |-> FALSE]
    ELSE
      LET p1 == IF force_reconnect THEN close(p, sess).poller ELSE p
          p2 == IF p1.powerwall # NoHandle THEN close(p1, sess).poller ELSE p1
          n  == p2.consecutive_connection_failures
      IN  IF n > 0 /\ (t - p2.last_connection_attempt) < backoff_time(n)
          THEN backoff_rejected(p2, t)
          ELSE IF conn = "ok"
          THEN [poller |-> [p2 EXCEPT !.powerwall = p2.generation + 1,
                                      !.generation = p2.generation + 1,
                                      !.consecutive_auth_failures = 0,
                                      !.consecutive_connection_failures = 0,
                                      !.last_connection_attempt = t],
                exc |-> "none", attempted |-> TRUE]
          ELSE [poller |-> [p2 EXCEPT !.consecutive_connection_failures = n + 1,
                                      !.last_connection_attempt = t],
                exc |-> IF is_connection_error(conn) THEN Unavailable ELSE conn,
                attempted |-> TRUE]

\* _ensure_connection leaving the connection failure count after a
\* successful creation
ensure_connection_keeping_failures(p, force_reconnect, t, conn, sess) ==
    IF ~force_reconnect /\ p.powerwall # NoHandle
    THEN [poller |-> p, exc |-> "none", attempted |-> FALSE]
    ELSE
      LET p1 == IF force_reconnect THEN close(p, sess).poller ELSE p
          p2 == IF p1.powerwall # NoHandle THEN close(p1, sess).poller ELSE p1
          n  == p2.consecutive_connection_failures
      IN  IF n > 0 /\ (t - p2.last_connection_attempt) < backoff_time(n)
          THEN backoff_rejected(p2, t)
          ELSE IF conn = "ok"
          THEN [poller |-> [p2 EXCEPT !.powerwall = p2.generation + 1,
                                      !.generation = p2.generation + 1,
                                      !.consecutive_auth_failures = 0],
                exc |-> "none", attempted |-> TRUE]
          ELSE [poller |-> [p2 EXCEPT !.consecutive_connection_failures = n + 1,
                                      !.last_connection_attempt = t],
                exc |-> IF is_connection_error(conn) THEN Unavailable ELSE conn,
                attempted |-> TRUE]

\* _ensure_connection(force_reconnect) at time t; conn is what the
\* pypowerwall.Powerwall(...) constructor does if it is reached: "ok" or the
\* raw error it raises.  attempted: the constructor was called.
ensure_connection(p, force_reconnect, t, conn, sess) ==
    IF ~force_reconnect /\ p.powerwall # NoHandle
    THEN [poller |-> p, exc |-> "none", attempted |-> FALSE]
    ELSE
      LET p2 == ensure_connection_teardown(p, force_reconnect, sess).poller
          n  == p2.consecutive_connection_failures
      IN  IF n > 0 /\ (t - p2.last_connection_attempt) < backoff_time(n)
          THEN backoff_rejected(p2, t)
          ELSE IF conn = "ok"
          THEN [poller |-> [p2 EXCEPT !.powerwall = p2.generation + 1,
                                      !.generation = p2.generation + 1,
                                      !.consecutive_auth_failures = 0,
                                      !.consecutive_connection_failures = 0],
                exc |-> "none", attempted |-> TRUE]
          ELSE [poller |-> [p2 EXCEPT !.consecutive_connection_failures = n + 1,
                                      !.last_connection_attempt = t],
                exc |-> IF is_connection_error(conn) THEN Unavailable ELSE conn,
                attempted |-> TRUE]

---------------------------------------------------------------------------
(* fetch_snapshot helpers *)

\* values a read returns: power() gives a dict with readings ("data"), a
\* dict of zeros ("zeros") or None; status() a well-formed dict ("dict"), a
\* dict whose "control" entry is no dict ("malformed") or None; vitals() a
\* dict or None.
PowerOutcomes == {"data", "zeros", "none"} \cup ErrKinds
StatusOutcomes == {"dict", "malformed", "none"} \cup ErrKinds
VitalsOutcomes == {"dict", "none"} \cup ErrKinds
ConnOutcomes == {"ok"} \cup ErrKinds
SessOutcomes == {"ok", "raises"}
FieldOutcomes == {"some", "none"}

\* what a device call can do now: a reachable gateway answers every call
\* with a well-formed value
Answers(S) ==
    IF gateway = "reachable" THEN S \ (ErrKinds \cup {"malformed"}) ELSE S

\* _fetch_with_auth_retry(fetch_func, data_type): r is what fetch_func() does
fetch_with_auth_retry(p, r) ==
    IF r \notin ErrKinds
    THEN [poller |-> p, value |-> r, exc |-> "none"]
    ELSE IF is_auth_error(r)
    THEN LET p1 == [p EXCEPT !.consecutive_auth_failures = @ + 1] IN
         IF p1.consecutive_auth_failures >= max_auth_failures
         THEN [poller |-> p1, value |-> "none", exc |-> Unavailable]
         ELSE [poller |-> p1, value |-> "none", exc |-> "none"]
    ELSE IF is_connection_error(r)
    THEN [poller |-> p, value |-> "none", exc |-> Unavailable]
    ELSE [poller |-> p, value |-> "none", exc |-> "none"]

\* except clauses that re-raise PowerwallUnavailableError without close()
fetch_except_keeping(p, exc, sess) ==
    LET p1 == [p EXCEPT !.client_error_count = @ + 1] IN
    IF exc = Unavailable \/ is_connection_error(exc) \/ is_auth_error(exc)
    THEN [poller |-> p1, exc |-> Unavailable]
    ELSE [poller |-> p1, exc |-> exc]

\* the except clauses of fetch_snapshot: exc is Unavailable or a raw error
fetch_except(p, exc, sess) ==
    LET p1 == [p EXCEPT !.client_error_count = @ + 1] IN
    IF exc = Unavailable
    THEN [poller |-> close(p1, sess).poller, exc |-> Unavailable]
    ELSE IF is_connection_error(exc)
    THEN [poller |-> close(p1, sess).poller, exc |-> Unavailable]
    ELSE IF is_auth_error(exc)
    THEN [poller |-> close([p1 EXCEPT !.consecutive_auth_failures = @ + 1],
                           sess).poller,
          exc |-> Unavailable]
    ELSE [poller |-> p1, exc |-> exc]

\* _build_snapshot: status.get("control", {}).get(...) raises AttributeError
\* (an error with neither signal) when "control" is no dict
\* identity is "none" when site_name(), version() and din() all gave None
\* (or failed inside _safe_call), level likewise for level()
build_snapshot(power_values, status, vitals, identity, level) ==
    IF status = "malformed"
    THEN [exc |-> "other", snapshot |-> [present |-> FALSE]]
    ELSE [exc |-> "none",
          snapshot |-> [present |-> TRUE, power |-> power_values,
                        battery_percentage |-> level, identity |-> identity,
                        vitals |-> vitals]]

---------------------------------------------------------------------------
(* Observer records *)

NoSnapshot == [present |-> FALSE]

LastInit == [op |-> "init", exc |-> "none", attempted |-> FALSE, force |-> FALSE,
             closed |-> FALSE, sess |-> "ok", handle |-> NoHandle,
             snapshot |-> NoSnapshot, read |-> "none", site |-> "none",
             retry_failed |-> FALSE, failures_before |-> 0,
             power_read |-> "none", closes |-> 0, over |-> NoHandle]

CallIdle == [pc |-> "idle", power_values |-> "none", status |-> "none",
             vitals |-> "none", first |-> NoHandle, retry_failed |-> FALSE,
             power_read |-> "none"]

---------------------------------------------------------------------------
(* PowerwallService (service.py) over the PowerwallPoller of clients.py.   *)
(* The poller is kept to its handle; a connection attempt succeeds or      *)
(* fails (a backoff rejection is one way of failing).  The Wi-Fi join and  *)
(* the health monitor keep no state here.                                  *)

ThreadIds == 1..MaxThreads

FreeThread ==
    [pc |-> "free", waiter |-> "none", at_stop |-> FALSE, outcome |-> "none"]

\* PowerwallService.__init__
ServiceInit ==
    /\ background_task = FALSE
    /\ stop_event = FALSE
    /\ poll_lock = [holder |-> "none", waiters |-> <<>>]
    /\ threads = [j \in ThreadIds |-> FreeThread]
    /\ loop = [pc |-> "absent", last |-> "none"]
    /\ od = [pc |-> "idle", store |-> FALSE, push |-> FALSE, used |-> FALSE,
             outcome |-> "none"]
    /\ life = [pc |-> "idle", starts |-> 0]
    /\ svc = [powerwall |-> FALSE, last_result |-> "none",
              consecutive_failures |-> 0]
    /\ mqtt_client = TRUE

---------------------------------------------------------------------------
(* The PowerwallPoller of clients.py, which service.py imports, and the    *)
(* Wi-Fi rejoin of the poll-failure handler.                               *)

\* cpoller.powerwall is NoHandle or LiveHandle: a Powerwall object is held
LiveHandle == 1

ClientsPollerInit ==
    [ powerwall |-> NoHandle,
      consecutive_auth_failures |-> 0,
      consecutive_connection_failures |-> 0,
      last_connection_attempt |-> 0 ]

\* close() of clients.py; a failure of close_session() is swallowed
clients_close(p) ==
    [p EXCEPT !.powerwall = NoHandle, !.consecutive_auth_failures = 0]

\* _ensure_connection stamping _last_connection_attempt after a successful
\* creation as well
clients_ensure_connection_stamping(p, force_reconnect, probe, t, conn) ==
    IF ~force_reconnect /\ p.powerwall # NoHandle /\ probe
    THEN [poller |-> p, exc |-> "none", attempted |-> FALSE, rejected |-> FALSE]
    ELSE
      LET p1 == IF force_reconnect THEN clients_close(p) ELSE p
          p2 == IF p1.powerwall = NoHandle THEN clients_close(p1) ELSE p1
          n  == p2.consecutive_connection_failures
      IN  IF n > 0 /\ (t - p2.last_connection_attempt) < backoff_time(n)
          THEN [poller |-> p2, exc |-> Unavailable, attempted |-> FALSE,
                rejected |-> TRUE]
          ELSE IF conn = "ok"
          THEN [poller |-> [p2 EXCEPT !.powerwall = LiveHandle,
                                      !.consecutive_auth_failures = 0,
                                      !.consecutive_connection_failures = 0,
                                      !.last_connection_attempt = t],
                exc |-> "none", attempted |-> TRUE, rejected |-> FALSE]
          ELSE [poller |-> [p2 EXCEPT !.consecutive_connection_failures = n + 1,
                                      !.last_connection_attempt = t],
                exc |-> IF is_connection_error(conn) THEN Unavailable ELSE conn,
                attempted |-> TRUE, rejected |-> FALSE]

\* _ensure_connection(force_reconnect) of clients.py at time t; probe is
\* what the handle's is_connected() answers, conn what the constructor does.
\* A handle whose probe is false is replaced without close().
clients_ensure_connection(p, force_reconnect, probe, t, conn) ==
    IF ~force_reconnect /\ p.powerwall # NoHandle /\ probe
    THEN [poller |-> p, exc |-> "none", attempted |-> FALSE, rejected |-> FALSE]
    ELSE
      LET p1 == IF force_reconnect THEN clients_close(p) ELSE p
          p2 == IF p1.powerwall = NoHandle THEN clients_close(p1) ELSE p1
          n  == p2.consecutive_connection_failures
      IN  IF n > 0 /\ (t - p2.last_connection_attempt) < backoff_time(n)
          THEN [poller |-> p2, exc |-> Unavailable, attempted |-> FALSE,
                rejected |-> TRUE]
          ELSE IF conn = "ok"
          THEN [poller |-> [p2 EXCEPT !.powerwall = LiveHandle,
                                      !.consecutive_auth_failures = 0,
                                      !.consecutive_connection_failures = 0],
                exc |-> "none", attempted |-> TRUE, rejected |-> FALSE]
          ELSE [poller |-> [p2 EXCEPT !.consecutive_connection_failures = n + 1,
                                      !.last_connection_attempt = t],
                exc |-> IF is_connection_error(conn) THEN Unavailable ELSE conn,
                attempted |-> TRUE, rejected |-> FALSE]

\* what the constructor and the device calls do in the polls explored: one
\* outcome for every path of fetch_snapshot
ConstructorOutcomes == {"ok", "conn"}
PowerReadOutcomes == {"ok", "conn", "auth"}
RetryReadOutcomes == {"ok", "conn", "other"}
ReadOutcomes == {"ok", "conn"}

\* the power read of clients.py: an auth failure below the threshold closes
\* the session, reconnects and reads once more, unguarded
clients_read_power(p, t, power, conn2, power2) ==
    IF power \notin ErrKinds
    THEN [poller |-> p, exc |-> "none", attempt_failed |-> FALSE]
    ELSE IF is_auth_error(power)
    THEN LET p1 == [p EXCEPT !.consecutive_auth_failures = @ + 1] IN
         IF p1.consecutive_auth_failures < max_auth_failures
         THEN LET e == clients_ensure_connection(clients_close(p1), TRUE, TRUE,
                                                 t, conn2)
              IN  IF e.exc # "none"
                  THEN [poller |-> e.poller, exc |-> e.exc,
                        attempt_failed |-> e.attempted]
                  ELSE [poller |-> e.poller,
                        exc |-> IF power2 \in ErrKinds THEN power2 ELSE "none",
                        attempt_failed |-> FALSE]
         ELSE [poller |-> p1, exc |-> Unavailable, attempt_failed |-> FALSE]
    ELSE IF is_connection_error(power)
    THEN [poller |-> p, exc |-> Unavailable, attempt_failed |-> FALSE]
    ELSE [poller |-> p, exc |-> "none", attempt_failed |-> FALSE]

\* the status and vitals reads of clients.py
clients_read(p, r) ==
    IF r \notin ErrKinds
    THEN [poller |-> p, exc |-> "none"]
    ELSE IF is_auth_error(r)
    THEN LET p1 == [p EXCEPT !.consecutive_auth_failures = @ + 1] IN
         [poller |-> p1,
          exc |-> IF p1.consecutive_auth_failures >= max_auth_failures
                  THEN Unavailable ELSE "none"]
    ELSE IF is_connection_error(r)
    THEN [poller |-> p, exc |-> Unavailable]
    ELSE [poller |-> p, exc |-> "none"]

\* the except clauses of fetch_snapshot in clients.py
clients_fetch_except(p, exc) ==
    IF exc = Unavailable
    THEN [poller |-> clients_close(p), exc |-> Unavailable]
    ELSE IF is_connection_error(exc)
    THEN [poller |-> clients_close(p), exc |-> Unavailable]
    ELSE IF is_auth_error(exc)
    THEN [poller |-> clients_close(p), exc |-> Unavailable]
    ELSE [poller |-> p, exc |-> exc]

\* fetch_snapshot of clients.py at time t.  attempted and rejected tell what
\* the first _ensure_connection did, attempt_failed that a constructor call
\* of this fetch raised.
clients_fetch_snapshot(p, t, probe, conn, power, conn2, power2, status, vitals) ==
    LET force == p.consecutive_auth_failures >= max_auth_failures
        e  == clients_ensure_connection(p, force, probe, t, conn)
        pw == clients_read_power(e.poller, t, power, conn2, power2)
        st == clients_read(pw.poller, status)
        vt == clients_read(st.poller, vitals)
        failing == IF e.exc # "none" THEN e
                   ELSE IF pw.exc # "none" THEN pw
                   ELSE IF st.exc # "none" THEN st
                   ELSE vt
        h  == clients_fetch_except(failing.poller, failing.exc)
        attempt_failed == IF e.exc # "none" THEN e.attempted
                          ELSE pw.attempt_failed
    IN  IF failing.exc # "none"
        THEN [poller |-> h.poller, exc |-> h.exc,
              attempted |-> e.attempted, rejected |-> e.rejected,
              attempt_failed |-> attempt_failed]
        ELSE [poller |-> [vt.poller EXCEPT !.consecutive_auth_failures = 0],
              exc |-> "none",
              attempted |-> e.attempted, rejected |-> e.rejected,
              attempt_failed |-> attempt_failed]

\* connect_to_wifi (connect_wifi.py): net is what the network does
NetOutcomes == {"joined", "already", "raises"}

connect_to_wifi(net) ==
    IF net = "raises" THEN [ret |-> "None", exc |-> "WiFiConnectionError"]
    ELSE IF net = "joined" THEN [ret |-> "True", exc |-> "none"]
    ELSE [ret |-> "False", exc |-> "none"]

\* maybe_connect_wifi of clients.py: the answer of connect_to_wifi is dropped
maybe_connect_wifi(net) ==
    [ret |-> "None", exc |-> connect_to_wifi(net).exc]

truthy(v) == v = "True"

\* the throttle of _handle_powerwall_failure lets the rejoin run at time t
rejoin_due(r, t) ==
    r.connect_wifi /\ t - r.last_wifi_attempt >= wifi_retry_seconds

\* the handler resetting the backoff after every rejoin that did not raise
handle_powerwall_failure_resetting(r, p, t, net) ==
    IF rejoin_due(r, t)
    THEN LET w == maybe_connect_wifi(net) IN
         [recovery |-> [r EXCEPT !.last_wifi_error = w.exc # "none",
                                 !.last_wifi_attempt = t],
          poller |-> IF w.exc = "none" /\ p.consecutive_connection_failures > 0
                     THEN [p EXCEPT !.consecutive_connection_failures = 0,
                                    !.last_connection_attempt = 0]
                     ELSE p,
          invoked |-> TRUE, reported |-> w.ret, ends |-> t,
          offline_published |-> r.mqtt_enabled]
    ELSE [recovery |-> r, poller |-> p, invoked |-> FALSE, reported |-> "None",
          ends |-> t, offline_published |-> r.mqtt_enabled]

\* the handler stamping _last_wifi_attempt only when the rejoin did not raise
handle_powerwall_failure_stamping_success(r, p, t, net) ==
    IF rejoin_due(r, t)
    THEN LET w == maybe_connect_wifi(net) IN
         [recovery |-> [r EXCEPT !.last_wifi_error = w.exc # "none",
                                 !.last_wifi_attempt =
                                     IF w.exc = "none" THEN t ELSE @],
          poller |-> IF w.exc = "none" /\ truthy(w.ret)
                        /\ p.consecutive_connection_failures > 0
                     THEN [p EXCEPT !.consecutive_connection_failures = 0,
                                    !.last_connection_attempt = 0]
                     ELSE p,
          invoked |-> TRUE, reported |-> w.ret, ends |-> t,
          offline_published |-> r.mqtt_enabled]
    ELSE [recovery |-> r, poller |-> p, invoked |-> FALSE, reported |-> "None",
          ends |-> t, offline_published |-> r.mqtt_enabled]

\* _handle_powerwall_failure at time t: net is what the network does if the
\* rejoin is invoked.  last_wifi_error is TRUE when an error text is stored.
\* offline_published: the availability message "offline" was handed to the
\* broker client, which happens whenever self._mqtt exists.
handle_powerwall_failure(r, p, t, net) ==
    IF rejoin_due(r, t)
    THEN LET w == maybe_connect_wifi(net) IN
         [recovery |-> [r EXCEPT !.last_wifi_error = w.exc # "none",
                                 !.last_wifi_attempt = t],
          poller |-> IF w.exc = "none" /\ truthy(w.ret)
                        /\ p.consecutive_connection_failures > 0
                     THEN [p EXCEPT !.consecutive_connection_failures = 0,
                                    !.last_connection_attempt = 0]
                     ELSE p,
          invoked |-> TRUE, reported |-> w.ret, ends |-> t,
          offline_published |-> r.mqtt_enabled]
    ELSE [recovery |-> r, poller |-> p, invoked |-> FALSE, reported |-> "None",
          ends |-> t, offline_published |-> r.mqtt_enabled]

\* the properties _last_powerwall_error, _last_influx_error, _last_mqtt_error
\* read the stored result; an error field is TRUE when a text is stored
NoResult ==
    [present |-> FALSE, snapshot |-> FALSE, powerwall_error |-> FALSE,
     influx_error |-> FALSE, mqtt_error |-> FALSE,
     pushed_influx |-> FALSE, published_mqtt |-> FALSE]

\* ComponentHealth of get_health_report, per component
component_health(healthy, detail, last_error) ==
    [healthy |-> healthy, detail |-> detail, last_error |-> last_error]

\* get_health_report over the service fields r.  self._mqtt exists exactly
\* when mqtt_enabled is configured.
get_health_report(r) ==
    LET res == r.last_result
        mqtt_healthy == IF r.mqtt_enabled
                        THEN ~res.mqtt_error /\ r.mqtt_connected
                        ELSE ~r.mqtt_enabled
        mqtt_detail == IF r.mqtt_enabled
                       THEN IF res.mqtt_error THEN "error"
                            ELSE IF ~mqtt_healthy THEN "MQTT not connected"
                            ELSE "none"
                       ELSE "none"
        components ==
            [powerwall |-> component_health(~res.powerwall_error,
                               IF res.powerwall_error THEN "error" ELSE "none",
                               res.powerwall_error),
             influxdb |-> component_health(~res.influx_error,
                               IF res.influx_error THEN "error" ELSE "none",
                               res.influx_error),
             mqtt |-> component_health(mqtt_healthy, mqtt_detail, res.mqtt_error),
             wifi |-> IF r.connect_wifi
                      THEN component_health(~r.last_wifi_error,
                               IF r.last_wifi_error THEN "error" ELSE "none",
                               r.last_wifi_error)
                      ELSE component_health(TRUE, "Wi-Fi auto-connect disabled",
                               r.last_wifi_error)]
    IN  [overall |-> \A c \in DOMAIN components : components[c].healthy,
         components |-> components]

\* the sinks of _poll_once_blocking after a snapshot was fetched: push is
\* what writer.write does, publish what mqtt.publish does when it reaches
\* the broker client
SinkOutcomes == {"ok", "raises"}

\* PollingResult.success
success(result) ==
    result.snapshot /\ ~result.powerwall_error

\* _update_state counting every stored result as a failure
service_update_state_counting_all(r, result) ==
    [r EXCEPT !.last_result = result,
              !.consecutive_failures = @ + 1]

\* _update_state starting the count again at every failure
service_update_state_restarting(r, result) ==
    [r EXCEPT !.last_result = result,
              !.consecutive_failures = IF success(result) THEN 0 ELSE 1]

\* _update_state over the service fields r
service_update_state(r, result) ==
    [r EXCEPT !.last_result = result,
              !.consecutive_failures = IF success(result) THEN 0 ELSE @ + 1]

poll_sinks(r, push, publish) ==
    [present |-> TRUE, snapshot |-> TRUE, powerwall_error |-> FALSE,
     influx_error |-> push = "raises",
     mqtt_error |-> r.mqtt_enabled /\ r.mqtt_connected /\ publish = "raises",
     pushed_influx |-> push = "ok",
     published_mqtt |-> r.mqtt_enabled
                        /\ ~(r.mqtt_connected /\ publish = "raises")]

\* the result of a poll whose fetch raised, the availability message
\* having been published all the same
poll_failed_publishing ==
    [NoResult EXCEPT !.present = TRUE, !.powerwall_error = TRUE,
                     !.published_mqtt = TRUE]

\* the result of a poll whose fetch raised
poll_failed ==
    [NoResult EXCEPT !.present = TRUE, !.powerwall_error = TRUE]

\* the inputs of one fetch_snapshot; an input that the fetch cannot reach
\* is kept at "ok"
FetchInputs ==
    { i \in [probe : BOOLEAN, conn : ConstructorOutcomes,
             power : PowerReadOutcomes, conn2 : ConstructorOutcomes,
             power2 : RetryReadOutcomes,
             status : ReadOutcomes, vitals : ReadOutcomes] :
        /\ i.conn # "ok" => /\ i.power = "ok" /\ i.status = "ok"
                            /\ i.vitals = "ok"
        /\ ~is_auth_error(i.power) => i.conn2 = "ok" /\ i.power2 = "ok"
        /\ i.conn2 # "ok" => i.power2 = "ok"
        /\ (i.power = "conn" \/ i.conn2 # "ok" \/ i.power2 # "ok")
               => i.status = "ok" /\ i.vitals = "ok"
        /\ i.status = "conn" => i.vitals = "ok" }

ObsInit ==
    [op |-> "init", failed |-> FALSE, fails |-> 0, invoked |-> FALSE,
     net |-> "none", reported |-> "None", had_handle |-> FALSE,
     attempted |-> FALSE, rejected |-> FALSE,
     after_join |-> FALSE, handler_changed |-> FALSE,
     invoke_at |-> -1, gap |-> -1, stored |-> FALSE, ever_failed |-> FALSE,
     bus_touched |-> FALSE]

\* what the observer keeps when no poll has just run
obs_between(o, op) ==
    [ObsInit EXCEPT !.op = op, !.fails = o.fails, !.after_join = o.after_join,
                    !.invoke_at = o.invoke_at, !.gap = o.gap,
                    !.ever_failed = o.ever_failed]

\* _update_state, its first statement: the result is stored
update_state_store(r, result) ==
    [r EXCEPT !.last_result = result]

\* _update_state, its second statement: the failure count follows the
\* result
update_state_count(r, result) ==
    [r EXCEPT !.consecutive_failures = IF success(result) THEN 0 ELSE @ + 1]

UpdateIdle == [pc |-> "idle", result |-> NoResult]

MonitorIdle ==
    [pc |-> "idle", powerwall_healthy |-> TRUE, overall |-> TRUE,
     consecutive_failures |-> 0]

\* no _update_state and no get_health_report call is in progress
MonitorInit ==
    /\ updating = UpdateIdle
    /\ monitor = MonitorIdle

\* PowerwallService.__init__ with the clock at m
RecoveryInit(m, connect_wifi, mqtt_enabled) ==
    /\ mono = m
    /\ cpoller = ClientsPollerInit
    /\ recovery = [connect_wifi |-> connect_wifi, mqtt_enabled |-> mqtt_enabled,
                   mqtt_connected |-> FALSE, last_wifi_attempt |-> 0,
                   last_wifi_error |-> FALSE, last_result |-> NoResult,
                   consecutive_failures |-> 0]
    /\ obs = ObsInit

Init ==
    /\ now = 0
    /\ poller = PollerInit
    /\ call = CallIdle
    /\ last = LastInit
    /\ failGen = [any |-> 0, unavailable |-> 0, auth_run |-> 0, refreshes |-> 0]
    /\ ServiceInit
    /\ RecoveryInit(0, TRUE, TRUE)
    /\ gateway = "unknown"
    /\ MonitorInit

---------------------------------------------------------------------------
(* SpecBackoff: the clock and direct calls, as the backoff tests make them *)

\* the clock advances
Tick ==
    /\ UNCHANGED <<svcVars, recVars, envVars, monVars>>
    /\ call.pc = "idle"
    /\ now - poller.last_connection_attempt < MaxIdle
    /\ now' = now + TickSeconds
    /\ last' = [LastInit EXCEPT !.op = "tick"]
    /\ UNCHANGED <<poller, call, failGen>>

\* poller._ensure_connection(force_reconnect) called directly
EnsureConnectionCall(maxFailures, maxGen) ==
    /\ UNCHANGED <<svcVars, recVars, envVars, monVars>>
    /\ call.pc = "idle"
    /\ \E force \in BOOLEAN, conn \in ConnOutcomes, sess \in SessOutcomes :
         LET r == ensure_connection(poller, force, now, conn, sess) IN
         /\ r.poller.generation <= maxGen
         /\ r.poller.consecutive_connection_failures <= maxFailures
         /\ poller' = r.poller
         /\ last' = [LastInit EXCEPT
                       !.op = "ensure", !.exc = r.exc, !.attempted = r.attempted,
                       !.force = force,
                       !.failures_before = poller.consecutive_connection_failures,
                       !.closes = IF ~force /\ poller.powerwall # NoHandle
                                  THEN 0
                                  ELSE ensure_connection_teardown(
                                           poller, force, sess).closes,
                       !.over = IF r.attempted
                                THEN ensure_connection_teardown(
                                         poller, force, sess).poller.powerwall
                                ELSE NoHandle]
    /\ UNCHANGED <<now, call, failGen>>

\* poller.close() called directly
CloseCall ==
    /\ UNCHANGED <<svcVars, recVars, envVars, monVars>>
    /\ call.pc = "idle"
    /\ \E sess \in SessOutcomes :
         LET r == close(poller, sess) IN
         /\ poller' = r.poller
         /\ last' = [LastInit EXCEPT !.op = "close", !.exc = r.exc,
                                     !.closed = r.session_closed, !.sess = sess]
    /\ UNCHANGED <<now, call, failGen>>

NextBackoff ==
    \/ Tick
    \/ EnsureConnectionCall(MaxBackoffFailures, MaxBackoffGen)
    \/ CloseCall

SpecBackoff == Init /\ [][NextBackoff]_vars

---------------------------------------------------------------------------
(* SpecPoller: fetch_snapshot, one device call per step *)

InBounds(p) ==
    /\ p.generation <= MaxGen
    /\ p.consecutive_connection_failures <= MaxFailures

\* the clock advances
TickPoller ==
    /\ UNCHANGED <<svcVars, recVars, envVars, monVars>>
    /\ call.pc = "idle"
    /\ now < MaxClock
    /\ now' = now + TickSeconds
    /\ last' = [LastInit EXCEPT !.op = "tick"]
    /\ UNCHANGED <<poller, call, failGen>>

\* observer: the run of reads that failed with an auth-only error, ended by
\* any other outcome of a read, and the session refreshes made during it
auth_run(g, r) ==
    IF r = "auth"
    THEN [g EXCEPT !.auth_run = Min(@ + 1, MaxAuthRun)]
    ELSE [g EXCEPT !.auth_run = 0, !.refreshes = 0]

refresh_counted(g) ==
    [g EXCEPT !.refreshes = Min(@ + 1, MaxAuthRun)]

\* fetch_snapshot raises: the except clauses run and the call ends
Raise(p, exc, sess, r, g) ==
    LET h == fetch_except(p, exc, sess) IN
    /\ InBounds(h.poller)
    /\ poller' = h.poller
    /\ call' = CallIdle
    /\ last' = [LastInit EXCEPT !.op = "fetch", !.exc = h.exc,
                                !.handle = call.first, !.read = r,
                                !.site = IF r = "none" THEN "none" ELSE call.pc,
                                !.retry_failed =
                                    \/ call.retry_failed
                                    \/ call.pc = "power_retry" /\ r \in ErrKinds]
    /\ failGen' = [g EXCEPT !.any = h.poller.generation,
                            !.unavailable = IF h.exc = Unavailable
                                            THEN h.poller.generation ELSE @]
    /\ UNCHANGED now

\* fetch_snapshot up to the return of its _ensure_connection
FetchEnter ==
    /\ UNCHANGED <<svcVars, recVars, envVars, monVars>>
    /\ call.pc = "idle"
    /\ \E conn \in Answers(ConnOutcomes), sess \in SessOutcomes :
         LET p0 == IF poller.client_error_count >= max_client_errors
                   THEN close(poller, sess).poller ELSE poller
             force == p0.consecutive_auth_failures >= max_auth_failures
             r == ensure_connection(p0, force, now, conn, sess)
             g == IF force THEN refresh_counted(failGen) ELSE failGen
         IN  IF r.exc = "none"
             THEN /\ InBounds(r.poller)
                  /\ poller' = r.poller
                  /\ call' = [CallIdle EXCEPT !.pc = "power",
                                              !.first = r.poller.powerwall]
                  /\ last' = [LastInit EXCEPT !.op = "fetching"]
                  /\ failGen' = g
                  /\ UNCHANGED now
             ELSE Raise(r.poller, r.exc, sess, "none", g)

\* _fetch_power_metrics: the first power() read and, after an auth failure,
\* close() and _ensure_connection()
ReadPower ==
    /\ UNCHANGED <<svcVars, recVars, envVars, monVars>>
    /\ call.pc = "power"
    /\ \E r \in Answers(PowerOutcomes), sess \in SessOutcomes :
         LET a == fetch_with_auth_retry(poller, r) IN
         IF a.exc # "none"
         THEN Raise(a.poller, a.exc, sess, r, auth_run(failGen, r))
         ELSE IF /\ a.value = "none"
                 /\ a.poller.consecutive_auth_failures > 0
                 /\ a.poller.consecutive_auth_failures < max_auth_failures
         THEN \E conn \in Answers(ConnOutcomes) :
                LET e == ensure_connection(close(a.poller, sess).poller,
                                           FALSE, now, conn, sess)
                    g == refresh_counted(auth_run(failGen, r))
                IN  IF e.exc # "none" THEN Raise(e.poller, e.exc, sess, r, g)
                    ELSE /\ InBounds(e.poller)
                         /\ poller' = e.poller
                         /\ call' = [call EXCEPT !.pc = "power_retry"]
                         /\ last' = [last EXCEPT !.read = r, !.site = call.pc]
                         /\ failGen' = g
                         /\ UNCHANGED now
         ELSE /\ poller' = a.poller
              /\ call' = [call EXCEPT !.pc = "status", !.power_values = a.value,
                                      !.power_read = r]
              /\ last' = [last EXCEPT !.read = r, !.site = call.pc]
              /\ failGen' = auth_run(failGen, r)
              /\ UNCHANGED now

\* _fetch_power_metrics: the power() read on the recreated client
RetryPower ==
    /\ UNCHANGED <<svcVars, recVars, envVars, monVars>>
    /\ call.pc = "power_retry"
    /\ \E r \in Answers(PowerOutcomes), sess \in SessOutcomes :
         LET a == fetch_with_auth_retry(poller, r) IN
         IF a.exc # "none"
         THEN Raise(a.poller, a.exc, sess, r, auth_run(failGen, r))
         ELSE /\ poller' = a.poller
              /\ call' = [call EXCEPT !.pc = "status", !.power_values = a.value,
                                      !.retry_failed = r \in ErrKinds,
                                      !.power_read = r]
              /\ last' = [last EXCEPT !.read = r, !.site = call.pc]
              /\ failGen' = auth_run(failGen, r)
              /\ UNCHANGED now

\* _fetch_status_data
ReadStatus ==
    /\ UNCHANGED <<svcVars, recVars, envVars, monVars>>
    /\ call.pc = "status"
    /\ \E r \in Answers(StatusOutcomes), sess \in SessOutcomes :
         LET a == fetch_with_auth_retry(poller, r) IN
         IF a.exc # "none"
         THEN Raise(a.poller, a.exc, sess, r, auth_run(failGen, r))
         ELSE /\ poller' = a.poller
              /\ call' = [call EXCEPT !.pc = "vitals", !.status = a.value]
              /\ last' = [last EXCEPT !.read = r, !.site = call.pc]
              /\ failGen' = auth_run(failGen, r)
              /\ UNCHANGED now

\* _fetch_vitals_data
ReadVitals ==
    /\ UNCHANGED <<svcVars, recVars, envVars, monVars>>
    /\ call.pc = "vitals"
    /\ \E r \in Answers(VitalsOutcomes), sess \in SessOutcomes :
         LET a == fetch_with_auth_retry(poller, r) IN
         IF a.exc # "none"
         THEN Raise(a.poller, a.exc, sess, r, auth_run(failGen, r))
         ELSE /\ poller' = a.poller
              /\ call' = [call EXCEPT !.pc = "build", !.vitals = a.value]
              /\ last' = [last EXCEPT !.read = r, !.site = call.pc]
              /\ failGen' = auth_run(failGen, r)
              /\ UNCHANGED now

\* _build_snapshot, the counter resets and the return
BuildAndReturn ==
    /\ UNCHANGED <<svcVars, recVars, envVars, monVars>>
    /\ call.pc = "build"
    /\ \E identity \in FieldOutcomes, level \in FieldOutcomes,
          sess \in SessOutcomes :
         LET b == build_snapshot(call.power_values, call.status, call.vitals,
                                 identity, level)
         IN  IF b.exc # "none"
             THEN Raise(poller, b.exc, sess, "none", failGen)
             ELSE /\ poller' = [poller EXCEPT !.consecutive_auth_failures = 0,
                                              !.client_error_count = 0]
                  /\ call' = CallIdle
                  /\ last' = [LastInit EXCEPT !.op = "fetch",
                                              !.handle = call.first,
                                              !.snapshot = b.snapshot,
                                              !.retry_failed = call.retry_failed,
                                              !.power_read = call.power_read]
                  /\ failGen' = [failGen EXCEPT !.auth_run = 0,
                                                !.refreshes = 0]
                  /\ UNCHANGED now

NextPoller ==
    \/ TickPoller
    \/ EnsureConnectionCall(MaxFailures, MaxGen)
    \/ CloseCall
    \/ FetchEnter
    \/ ReadPower
    \/ RetryPower
    \/ ReadStatus
    \/ ReadVitals
    \/ BuildAndReturn

SpecPoller == Init /\ [][NextPoller]_vars

---------------------------------------------------------------------------
(* SpecLive: fetch after fetch, as the polling loop issues them, while     *)
(* time passes and the gateway may come back for good                      *)

\* the clock is followed this many seconds past the last connection attempt:
\* one step more than the longest backoff the failures explored give
MaxLiveIdle == backoff_time(MaxFailures) + TickSeconds

\* the clock advances between two fetches
TickLive ==
    /\ UNCHANGED <<svcVars, recVars, envVars, monVars>>
    /\ call.pc = "idle"
    /\ now - poller.last_connection_attempt < MaxLiveIdle
    /\ now' = now + TickSeconds
    /\ last' = [LastInit EXCEPT !.op = "tick"]
    /\ UNCHANGED <<poller, call, failGen>>

\* the gateway becomes reachable and stays so
GatewayRecovers ==
    /\ UNCHANGED <<pollerVars, svcVars, recVars, monVars>>
    /\ gateway = "unknown"
    /\ gateway' = "reachable"

NextLive ==
    \/ TickLive
    \/ GatewayRecovers
    \/ FetchEnter
    \/ ReadPower
    \/ RetryPower
    \/ ReadStatus
    \/ ReadVitals
    \/ BuildAndReturn

\* time keeps advancing, the loop keeps calling fetch_snapshot and a call
\* that has begun runs to its end
FairnessLive ==
    /\ WF_vars(TickLive)
    /\ WF_vars(FetchEnter)
    /\ WF_vars(ReadPower)
    /\ WF_vars(RetryPower)
    /\ WF_vars(ReadStatus)
    /\ WF_vars(ReadVitals)
    /\ WF_vars(BuildAndReturn)

SpecLive == Init /\ [][NextLive]_vars /\ FairnessLive

---------------------------------------------------------------------------
(* Spec: the scheduler *)

InProgress == {"connect", "read", "sinks"}

\* the threads inside _poll_once_blocking
Executing == {j \in ThreadIds : threads[j].pc \in InProgress}

FreeSlots == {j \in ThreadIds : threads[j].pc = "free"}

is_running == background_task /\ loop.pc \notin {"absent", "done"}

\* asyncio.Lock.acquire() by task t: at once when the lock is free, else
\* behind the tasks already waiting
acquire(l, t) ==
    IF l.holder = "none"
    THEN [l EXCEPT !.holder = t]
    ELSE [l EXCEPT !.waiters = Append(@, t)]

\* asyncio.Lock.release(): the lock passes to the first waiter
release(l) ==
    IF l.waiters = <<>>
    THEN [holder |-> "none", waiters |-> <<>>]
    ELSE [holder |-> Head(l.waiters), waiters |-> Tail(l.waiters)]

\* a task that is cancelled gives up the lock or its place in the queue
abandon(l, t) ==
    IF l.holder = t
    THEN release(l)
    ELSE [l EXCEPT !.waiters = SelectSeq(@, LAMBDA w : w # t)]

\* asyncio.to_thread(self._poll_once_blocking, ...) awaited by task t
to_thread(th, t) ==
    LET j == CHOOSE k \in FreeSlots : \A m \in FreeSlots : k <= m IN
    [th EXCEPT ![j] = [pc |-> "connect", waiter |-> t, at_stop |-> FALSE,
                       outcome |-> "none"]]

\* _poll_once_blocking returns (or raises) with outcome o on thread j
finished(th, j, o) ==
    IF th[j].waiter = "none"
    THEN [th EXCEPT ![j] = FreeThread]
    ELSE [th EXCEPT ![j] = [@ EXCEPT !.pc = "finished", !.outcome = o,
                                     !.at_stop = FALSE]]

\* _update_state(result)
update_state(s, o) ==
    [s EXCEPT !.last_result = o,
              !.consecutive_failures =
                  IF o = "device" THEN Min(@ + 1, MaxConsecutive) ELSE 0]

\* _run_loop after an exception escaped poll_once
run_loop_stopping_on_exception(o) ==
    IF o = "raised" THEN "done" ELSE "sleep"

\* _run_loop after poll_once: an Exception is logged, and the loop sleeps
run_loop_after_poll(o) ==
    "sleep"

\* the arguments of the poll that thread j runs
push_to_influx(j) ==
    IF threads[j].waiter = "od" THEN od.push ELSE TRUE

\* fetch_snapshot, its _ensure_connection: a live handle that answers the
\* probe is kept, else a connection is attempted
ThreadConnect(j) ==
    /\ threads[j].pc = "connect"
    /\ \E probe \in BOOLEAN, conn \in {"ok", "fails"} :
          IF (svc.powerwall /\ probe) \/ conn = "ok"
          THEN /\ svc' = [svc EXCEPT !.powerwall = TRUE]
               /\ threads' = [threads EXCEPT ![j].pc = "read"]
          ELSE /\ svc' = [svc EXCEPT !.powerwall = FALSE]
               /\ threads' = finished(threads, j, "device")
    /\ UNCHANGED <<background_task, stop_event, poll_lock, loop, od, life,
                   mqtt_client>>
    /\ UNCHANGED <<pollerVars, recVars, envVars, monVars>>

\* fetch_snapshot, its reads of the device
ThreadRead(j) ==
    /\ threads[j].pc = "read"
    /\ \E r \in {"ok", "reconnected", "unavailable", "other"} :
          CASE r = "ok" ->
                 /\ threads' = [threads EXCEPT ![j].pc = "sinks"]
                 /\ UNCHANGED svc
            [] r = "reconnected" ->
                 /\ svc' = [svc EXCEPT !.powerwall = TRUE]
                 /\ threads' = [threads EXCEPT ![j].pc = "sinks"]
            [] r = "unavailable" ->
                 /\ svc' = [svc EXCEPT !.powerwall = FALSE]
                 /\ threads' = finished(threads, j, "device")
            [] r = "other" ->
                 /\ threads' = finished(threads, j, "device")
                 /\ UNCHANGED svc
    /\ UNCHANGED <<background_task, stop_event, poll_lock, loop, od, life,
                   mqtt_client>>
    /\ UNCHANGED <<pollerVars, recVars, envVars, monVars>>

\* _poll_once_blocking after a fetch that returned: the store and the bus
ThreadSinks(j) ==
    /\ threads[j].pc = "sinks"
    /\ \E line \in {"line", "none", "raises"}, write \in {"ok", "fails"},
          publish \in {"ok", "fails"} :
          LET push == push_to_influx(j)
              o == IF push /\ line = "raises" THEN "raised"
                   ELSE IF push /\ line = "line" /\ write = "fails"
                   THEN "sink"
                   ELSE IF push /\ mqtt_client /\ publish = "fails"
                   THEN "sink"
                   ELSE "ok"
          IN threads' = finished(threads, j, o)
    /\ UNCHANGED <<background_task, stop_event, poll_lock, loop, od, life,
                   svc, mqtt_client>>
    /\ UNCHANGED <<pollerVars, recVars, envVars, monVars>>

\* _run_loop at the top of its while: out if the event is set, else
\* poll_once up to its first await
BgLoopTop ==
    /\ loop.pc \in {"created", "sleep"}
    /\ IF stop_event
       THEN /\ loop' = [loop EXCEPT !.pc = "done"]
            /\ UNCHANGED <<poll_lock, threads>>
       ELSE IF poll_lock.holder = "none"
       THEN /\ FreeSlots # {}
            /\ poll_lock' = acquire(poll_lock, "bg")
            /\ threads' = to_thread(threads, "bg")
            /\ loop' = [loop EXCEPT !.pc = "thread_wait"]
       ELSE /\ poll_lock' = acquire(poll_lock, "bg")
            /\ loop' = [loop EXCEPT !.pc = "lock_wait"]
            /\ UNCHANGED threads
    /\ UNCHANGED <<background_task, stop_event, od, life, svc, mqtt_client>>
    /\ UNCHANGED <<pollerVars, recVars, envVars, monVars>>

\* the loop's poll_once is handed the lock
BgAcquired ==
    /\ loop.pc = "lock_wait"
    /\ poll_lock.holder = "bg"
    /\ FreeSlots # {}
    /\ threads' = to_thread(threads, "bg")
    /\ loop' = [loop EXCEPT !.pc = "thread_wait"]
    /\ UNCHANGED <<background_task, stop_event, poll_lock, od, life, svc,
                   mqtt_client>>
    /\ UNCHANGED <<pollerVars, recVars, envVars, monVars>>

\* the loop's poll_once resumes with the thread's outcome
BgPollDone ==
    /\ loop.pc = "thread_wait"
    /\ \E j \in ThreadIds :
          /\ threads[j].waiter = "bg"
          /\ threads[j].pc = "finished"
          /\ svc' = IF threads[j].outcome = "raised" THEN svc
                    ELSE update_state(svc, threads[j].outcome)
          /\ loop' = [pc |-> run_loop_after_poll(threads[j].outcome),
                      last |-> threads[j].outcome]
          /\ threads' = [threads EXCEPT ![j] = FreeThread]
    /\ poll_lock' = release(poll_lock)
    /\ UNCHANGED <<background_task, stop_event, od, life, mqtt_client>>
    /\ UNCHANGED <<pollerVars, recVars, envVars, monVars>>

\* poll_once(store_result=store) or live_snapshot (store = FALSE) called
\* from outside the loop
OdCall ==
    /\ od.pc = "idle"
    /\ \E store \in BOOLEAN, push \in BOOLEAN :
          od' = [pc |-> IF poll_lock.holder = "none" THEN "thread_wait"
                        ELSE "lock_wait",
                 store |-> store, push |-> push, used |-> TRUE,
                 outcome |-> "none"]
    /\ poll_lock' = acquire(poll_lock, "od")
    /\ IF poll_lock.holder = "none"
       THEN FreeSlots # {} /\ threads' = to_thread(threads, "od")
       ELSE UNCHANGED threads
    /\ UNCHANGED <<background_task, stop_event, loop, life, svc, mqtt_client>>
    /\ UNCHANGED <<pollerVars, recVars, envVars, monVars>>

\* the on-demand poll_once is handed the lock
OdAcquired ==
    /\ od.pc = "lock_wait"
    /\ poll_lock.holder = "od"
    /\ FreeSlots # {}
    /\ threads' = to_thread(threads, "od")
    /\ od' = [od EXCEPT !.pc = "thread_wait"]
    /\ UNCHANGED <<background_task, stop_event, poll_lock, loop, life, svc,
                   mqtt_client>>
    /\ UNCHANGED <<pollerVars, recVars, envVars, monVars>>

\* the on-demand poll_once resumes with the thread's outcome
OdPollDone ==
    /\ od.pc = "thread_wait"
    /\ \E j \in ThreadIds :
          /\ threads[j].waiter = "od"
          /\ threads[j].pc = "finished"
          /\ svc' = IF threads[j].outcome # "raised" /\ od.store
                    THEN update_state(svc, threads[j].outcome)
                    ELSE svc
          /\ od' = [od EXCEPT !.pc = "idle", !.outcome = threads[j].outcome]
          /\ threads' = [threads EXCEPT ![j] = FreeThread]
    /\ poll_lock' = release(poll_lock)
    /\ UNCHANGED <<background_task, stop_event, loop, life, mqtt_client>>
    /\ UNCHANGED <<pollerVars, recVars, envVars, monVars>>

\* start() up to its await of the Wi-Fi join
StartBegin ==
    /\ life.pc = "idle"
    /\ life.starts < MaxStarts
    /\ ~is_running
    /\ stop_event' = FALSE
    /\ life' = [pc |-> "start_wifi", starts |-> life.starts + 1]
    /\ UNCHANGED <<background_task, poll_lock, threads, loop, od, svc,
                   mqtt_client>>
    /\ UNCHANGED <<pollerVars, recVars, envVars, monVars>>

\* start() after the Wi-Fi join: the loop's task is created
StartFinish ==
    /\ life.pc = "start_wifi"
    /\ background_task' = TRUE
    /\ loop' = [pc |-> "created", last |-> "none"]
    /\ life' = [life EXCEPT !.pc = "running"]
    /\ UNCHANGED <<stop_event, poll_lock, threads, od, svc, mqtt_client>>
    /\ UNCHANGED <<pollerVars, recVars, envVars, monVars>>

\* threads that are executing when stop() is called
mark_at_stop(th) ==
    [j \in ThreadIds |->
        IF th[j].pc \in InProgress THEN [th[j] EXCEPT !.at_stop = TRUE]
        ELSE th[j]]

\* Task.cancel() on the loop's task: the thread it awaits is not stopped
cancel(th) ==
    [j \in ThreadIds |->
        IF th[j].waiter # "bg" THEN th[j]
        ELSE IF th[j].pc = "finished" THEN FreeThread
        ELSE [th[j] EXCEPT !.waiter = "none"]]

\* stop() with no task: straight to _shutdown_clients
StopNeverStarted ==
    /\ life.pc = "idle"
    /\ ~background_task
    /\ threads' = mark_at_stop(threads)
    /\ life' = [life EXCEPT !.pc = "shutdown_close"]
    /\ UNCHANGED <<background_task, stop_event, poll_lock, loop, od, svc,
                   mqtt_client>>
    /\ UNCHANGED <<pollerVars, recVars, envVars, monVars>>

\* stop() with a task: the event is set and the task is cancelled
StopCancel ==
    /\ life.pc = "running"
    /\ background_task
    /\ stop_event' = TRUE
    /\ loop' = [loop EXCEPT !.pc = "done"]
    /\ poll_lock' = IF loop.pc \in {"lock_wait", "thread_wait"}
                    THEN abandon(poll_lock, "bg") ELSE poll_lock
    /\ threads' = cancel(mark_at_stop(threads))
    /\ life' = [life EXCEPT !.pc = "stop_await"]
    /\ UNCHANGED <<background_task, od, svc, mqtt_client>>
    /\ UNCHANGED <<pollerVars, recVars, envVars, monVars>>

\* stop(), its finally: the task is dropped, the event replaced and
\* _shutdown_clients handed to a thread
StopFinally ==
    /\ life.pc = "stop_await"
    /\ background_task' = FALSE
    /\ stop_event' = FALSE
    /\ life' = [life EXCEPT !.pc = "shutdown_close"]
    /\ UNCHANGED <<poll_lock, threads, loop, od, svc, mqtt_client>>
    /\ UNCHANGED <<pollerVars, recVars, envVars, monVars>>

\* _shutdown_clients: self._poller.close()
ShutdownPollerClose ==
    /\ life.pc = "shutdown_close"
    /\ svc' = [svc EXCEPT !.powerwall = FALSE]
    /\ life' = [life EXCEPT !.pc = "shutdown_mqtt"]
    /\ UNCHANGED <<background_task, stop_event, poll_lock, threads, loop, od,
                   mqtt_client>>
    /\ UNCHANGED <<pollerVars, recVars, envVars, monVars>>

\* _shutdown_clients: self._mqtt.close(); stop() is then ready to return
ShutdownMqttClose ==
    /\ life.pc = "shutdown_mqtt"
    /\ mqtt_client' = FALSE
    /\ life' = [life EXCEPT !.pc = "stop_returning"]
    /\ UNCHANGED <<background_task, stop_event, poll_lock, threads, loop, od,
                   svc>>
    /\ UNCHANGED <<pollerVars, recVars, envVars, monVars>>

\* stop() returns
StopReturn ==
    /\ life.pc = "stop_returning"
    /\ life' = [life EXCEPT !.pc = "idle"]
    /\ UNCHANGED <<background_task, stop_event, poll_lock, threads, loop, od,
                   svc, mqtt_client>>
    /\ UNCHANGED <<pollerVars, recVars, envVars, monVars>>

Next ==
    \/ StartBegin
    \/ StartFinish
    \/ StopNeverStarted
    \/ StopCancel
    \/ StopFinally
    \/ ShutdownPollerClose
    \/ ShutdownMqttClose
    \/ StopReturn
    \/ BgLoopTop
    \/ BgAcquired
    \/ BgPollDone
    \/ OdCall
    \/ OdAcquired
    \/ OdPollDone
    \/ \E j \in ThreadIds : ThreadConnect(j)
    \/ \E j \in ThreadIds : ThreadRead(j)
    \/ \E j \in ThreadIds : ThreadSinks(j)

Spec == Init /\ [][Next]_vars

\* the event loop runs the tasks that are ready, the timer of the loop's
\* sleep fires, and the worker threads run
Fairness ==
    /\ WF_vars(BgLoopTop)
    /\ WF_vars(BgAcquired)
    /\ WF_vars(BgPollDone)
    /\ WF_vars(OdAcquired)
    /\ WF_vars(OdPollDone)
    /\ \A j \in ThreadIds :
          /\ WF_vars(ThreadConnect(j))
          /\ WF_vars(ThreadRead(j))
          /\ WF_vars(ThreadSinks(j))

SpecFair == Init /\ [][Next]_vars /\ Fairness

---------------------------------------------------------------------------
(* Claims about PowerwallPoller (powerwall_client.py) *)

FetchReturned == last.op = "fetch" /\ last.exc = "none"
FetchRaised == last.op = "fetch" /\ last.exc # "none"

\* C6 as stated: after a fetch that failed for any reason (connection, auth,
\* or any other error), every later fetch runs on a handle created after the
\* failure.  Checked under SpecPoller.
C6_NoReuseAfterAnyFailure ==
    /\ (call.pc # "idle" => call.first > failGen.any)
    /\ (FetchReturned => last.handle > failGen.any)

\* C6 as amended: after a fetch that failed with PowerwallUnavailableError the
\* poller holds no handle, and every later fetch, in progress or returned,
\* runs on a handle created after that failure.  Checked under SpecPoller.
C6_NoReuseAfterUnavailable ==
    /\ (FetchRaised /\ last.exc = Unavailable => poller.powerwall = NoHandle)
    /\ (call.pc # "idle" => call.first > failGen.unavailable)
    /\ (FetchReturned => last.handle > failGen.unavailable)

\* C6 witness: a fetch returned after an earlier fetch had failed with
\* PowerwallUnavailableError on handle 1.
C6_Witness ==
    FetchReturned /\ failGen.unavailable = 1 /\ last.handle = 2

\* the window the claim gives: 30, 60, 120, 240, then 300
ExpectedBackoff(n) ==
    CASE n = 1 -> 30 [] n = 2 -> 60 [] n = 3 -> 120 [] n = 4 -> 240
      [] OTHER -> 300

\* C7: a call of _ensure_connection that goes past the live-handle return
\* after n = 1..20 consecutive failed attempts is rejected exactly when less
\* than min(30 * 2^(n-1), 300) seconds have passed since the last attempt,
\* and makes an attempt otherwise.  Checked under SpecBackoff.
C7_BackoffWindow ==
    [][ ( /\ last'.op = "ensure"
          /\ poller.consecutive_connection_failures \in 1..20
          /\ (last'.force \/ poller.powerwall = NoHandle) )
        => ( last'.attempted <=>
               now - poller.last_connection_attempt
                 >= ExpectedBackoff(poller.consecutive_connection_failures) )
      ]_vars

\* C7 witness: after 20 consecutive failures a call 270 s after the last
\* attempt has been rejected.
C7_Witness ==
    /\ last.op = "ensure" /\ ~last.attempted /\ last.exc = Unavailable
    /\ poller.consecutive_connection_failures = 20
    /\ now - poller.last_connection_attempt = 270

\* C8: a call of _ensure_connection inside the backoff window attempts no
\* connection, raises PowerwallUnavailableError and leaves
\* consecutive_connection_failures and last_connection_attempt as they were.
\* Checked under SpecBackoff.
C8_BackoffRejectionFrame ==
    [][ ( /\ last'.op = "ensure"
          /\ (last'.force \/ poller.powerwall = NoHandle)
          /\ poller.consecutive_connection_failures > 0
          /\ now - poller.last_connection_attempt
               < backoff_time(poller.consecutive_connection_failures) )
        => ( /\ ~last'.attempted
             /\ last'.exc = Unavailable
             /\ poller'.consecutive_connection_failures
                  = poller.consecutive_connection_failures
             /\ poller'.last_connection_attempt
                  = poller.last_connection_attempt )
      ]_vars

\* C8 witness: a forced call was rejected some time after the third failure.
C8_Witness ==
    /\ last.op = "ensure" /\ last.force /\ ~last.attempted
    /\ last.exc = Unavailable
    /\ poller.consecutive_connection_failures = 3
    /\ now > poller.last_connection_attempt

\* C9: close() never raises and leaves no live handle, whatever the state
\* it is called in and whatever close_session() does.  Checked under
\* SpecPoller.
C9_CloseIdempotent ==
    last.op = "close" => (last.exc = "none" /\ poller.powerwall = NoHandle)

\* C9 witness: close() was called on a live handle whose close_session()
\* raised.
C9_Witness ==
    last.op = "close" /\ last.closed /\ last.sess = "raises"

\* all power readings zero or absent, battery percentage and identity absent
Trivial(s) ==
    /\ s.power \in {"zeros", "none"}
    /\ s.battery_percentage = "none"
    /\ s.identity = "none"

\* C10: fetch_snapshot never returns a trivial snapshot (it raises
\* PowerwallUnavailableError instead).  Checked under SpecPoller.
C10_TrivialSnapshotRejected ==
    FetchReturned => ~Trivial(last.snapshot)

---------------------------------------------------------------------------
(* Claims about PowerwallService (service.py) *)

\* C1: at most one execution of _poll_once_blocking is in progress at any
\* time, whatever the interleaving of the loop, on-demand polls, start()
\* and stop().  Checked under Spec.
C1_OnePollAtATime ==
    Cardinality(Executing) <= 1

\* C2: _shutdown_clients does not run while a fetch that was executing when
\* stop() was called is still executing.  Checked under Spec.
C2_ShutdownAfterFetch ==
    life.pc = "shutdown_mqtt"
        => \A j \in ThreadIds : ~(threads[j].at_stop /\ j \in Executing)

\* C3: when stop() returns (no on-demand poll having been made), is_running()
\* is false, the loop is in no cycle and will start none, and the poller
\* holds no live handle.  Checked under Spec.
C3_StoppedState ==
    (life.pc = "stop_returning" /\ ~od.used)
        => /\ ~is_running
           /\ loop.pc \in {"absent", "done"}
           /\ ~svc.powerwall

\* C4: poll_once never raises: no call, from the loop or on demand, ends
\* with an exception.  Checked under Spec.
C4_PollOnceNeverRaises ==
    od.outcome # "raised" /\ loop.last # "raised"

\* a cycle of the loop has failed and stop() has not been called
CycleFailed ==
    /\ life.pc = "running"
    /\ loop.last \in {"device", "sink", "raised"}
    /\ loop.pc # "thread_wait"

\* C5: while stop() is not called, after a cycle that failed (device
\* failure, sink failure, or an exception out of poll_once) the loop
\* eventually starts another cycle.  Checked under SpecFair.
C5_LoopSurvivesFailure ==
    CycleFailed ~> (loop.pc = "thread_wait" \/ life.pc # "running")

\* C5 witness: the loop is in a new cycle after a cycle in which poll_once
\* raised.
C5_Witness ==
    life.pc = "running" /\ loop.pc = "thread_wait" /\ loop.last = "raised"

---------------------------------------------------------------------------
(* Claims about the reads of fetch_snapshot (powerwall_client.py) *)

\* C11: right after a device read (power, status or vitals) that failed with
\* an error _is_connection_error accepts, fetch_snapshot has raised
\* PowerwallUnavailableError, no further read was made, and the poller holds
\* no handle.  Checked under SpecPoller.
C11_ConnectionErrorEndsFetch ==
    is_connection_error(last.read)
        => /\ call.pc = "idle"
           /\ last.op = "fetch"
           /\ last.exc = Unavailable
           /\ poller.powerwall = NoHandle

\* C12: right after a power, status or vitals read that failed with an
\* auth-classified error, unless the fetch has raised (budget exhausted, or
\* the session could not be recreated), the session has been recreated and
\* the retry of that same read is the next device call.  Checked under
\* SpecPoller.
C12_AuthFailureRefreshesAndRetries ==
    (last.read = "auth" /\ last.site \in {"power", "status", "vitals"}
       /\ last.op # "fetch")
        => \/ last.site = "power" /\ call.pc = "power_retry"
                                  /\ poller.powerwall > call.first
           \/ last.site = "status" /\ call.pc = "status_retry"
                                   /\ poller.powerwall > call.first
           \/ last.site = "vitals" /\ call.pc = "vitals_retry"
                                   /\ poller.powerwall > call.first

\* C13: a fetch in which the retry of the power read failed ends with
\* PowerwallUnavailableError and never with a snapshot.  Checked under
\* SpecPoller.
C13_FailedRetryFailsFetch ==
    (last.op = "fetch" /\ last.retry_failed) => last.exc = Unavailable

\* C14: right after the third auth-classified read failure in a row,
\* fetch_snapshot has raised PowerwallUnavailableError (so no further read
\* and no further refresh follow in that fetch) and exactly one session
\* refresh was made over the three failures.  Checked under SpecPoller.
C14_ThirdAuthFailureRaises ==
    (failGen.auth_run = 3 /\ last.read = "auth")
        => /\ last.op = "fetch"
           /\ last.exc = Unavailable
           /\ failGen.refreshes = 1


---------------------------------------------------------------------------
(* SpecRecovery: polls one after another, as the polling loop makes them   *)

\* time passes between two polls
Elapse ==
    /\ UNCHANGED <<pollerVars, svcVars, envVars, monVars>>
    /\ mono + PollSeconds <= MaxMono
    /\ mono' = mono + PollSeconds
    /\ obs' = obs_between(obs, "elapse")
    /\ UNCHANGED <<cpoller, recovery>>

\* a poll whose fetch_snapshot raises: _handle_powerwall_failure, then
\* _update_state if the result is stored
PollFails(f, store) ==
    \E net \in IF rejoin_due(recovery, mono) THEN NetOutcomes ELSE {"already"} :
      \E h \in {handle_powerwall_failure(recovery, f.poller, mono, net)} :
      /\ store => recovery.consecutive_failures < MaxPollFailures
      /\ cpoller' = h.poller
      /\ recovery' = IF store
                     THEN service_update_state(h.recovery, poll_failed)
                     ELSE h.recovery
      /\ obs' = [obs EXCEPT
                   !.op = "poll", !.failed = TRUE, !.fails = Min(@ + 1, 2),
                   !.stored = store,
                   !.ever_failed = @ \/ f.attempt_failed,
                   !.invoked = h.invoked,
                   !.net = IF h.invoked THEN net ELSE "none",
                   !.reported = h.reported,
                   !.had_handle = cpoller.powerwall # NoHandle,
                   !.attempted = f.attempted, !.rejected = f.rejected,
                   !.after_join = h.invoked /\ net = "joined",
                   !.handler_changed = h.poller # f.poller,
                   !.bus_touched = h.offline_published,
                   !.invoke_at = IF h.invoked THEN mono ELSE @,
                   !.gap = IF h.invoked /\ obs.invoke_at >= 0
                           THEN mono - obs.invoke_at ELSE @]

\* a poll whose fetch_snapshot returns: the sinks, then _update_state if
\* the result is stored
PollSucceeds(f, sinks, store) ==
    \E push \in sinks, publish \in sinks :
      /\ cpoller' = f.poller
      /\ recovery' = IF store
                     THEN service_update_state(recovery,
                              poll_sinks(recovery, push, publish))
                     ELSE recovery
      /\ obs' = [obs EXCEPT
                   !.op = "poll", !.failed = FALSE, !.invoked = FALSE,
                   !.stored = store,
                   !.ever_failed = @ \/ f.attempt_failed,
                   !.net = "none", !.reported = "None",
                   !.had_handle = cpoller.powerwall # NoHandle,
                   !.attempted = f.attempted, !.rejected = f.rejected,
                   !.after_join = FALSE, !.handler_changed = FALSE,
                   !.bus_touched = recovery.mqtt_enabled]

\* poll_once(store_result): _poll_once_blocking, then _update_state if
\* store_result is set.  sinks: what the writes to InfluxDB and MQTT can do;
\* stores: the values of store_result the callers pass.
PollOnce(sinks, stores) ==
    /\ UNCHANGED <<pollerVars, svcVars, envVars, monVars>>
    /\ UNCHANGED mono
    /\ \E i \in FetchInputs :
         \E f \in {clients_fetch_snapshot(cpoller, mono, i.probe, i.conn,
                                          i.power, i.conn2, i.power2,
                                          i.status, i.vitals)} :
             /\ f.poller.consecutive_connection_failures <= MaxRecFailures
             /\ \E store \in stores :
                  IF f.exc # "none" THEN PollFails(f, store)
                  ELSE PollSucceeds(f, sinks, store)

\* the broker client's callbacks _on_connect(rc) and _on_disconnect
MqttCallback ==
    /\ UNCHANGED <<pollerVars, svcVars, envVars, monVars>>
    /\ recovery.mqtt_enabled
    /\ \E connected \in BOOLEAN :
         /\ connected # recovery.mqtt_connected
         /\ recovery' = [recovery EXCEPT !.mqtt_connected = connected]
    /\ obs' = obs_between(obs, "mqtt")
    /\ UNCHANGED <<mono, cpoller>>

\* the service constructed with MQTT disabled, at any clock value
InitRecovery ==
    /\ now = 0
    /\ poller = PollerInit
    /\ call = CallIdle
    /\ last = LastInit
    /\ failGen = [any |-> 0, unavailable |-> 0, auth_run |-> 0, refreshes |-> 0]
    /\ ServiceInit
    /\ \E m \in BootClock, connect_wifi \in BOOLEAN :
         RecoveryInit(m, connect_wifi, FALSE)
    /\ gateway = "unknown"
    /\ MonitorInit

NextRecovery ==
    \/ Elapse
    \/ PollOnce({"ok"}, {TRUE})

SpecRecovery == InitRecovery /\ [][NextRecovery]_vars

---------------------------------------------------------------------------
(* SpecHealth: polls with their sinks and the broker callbacks, the clock  *)
(* standing still                                                          *)

InitHealth ==
    /\ now = 0
    /\ poller = PollerInit
    /\ call = CallIdle
    /\ last = LastInit
    /\ failGen = [any |-> 0, unavailable |-> 0, auth_run |-> 0, refreshes |-> 0]
    /\ ServiceInit
    /\ \E m \in BootClock, connect_wifi \in BOOLEAN, mqtt_enabled \in BOOLEAN :
         RecoveryInit(m, connect_wifi, mqtt_enabled)
    /\ gateway = "unknown"
    /\ MonitorInit

NextHealth ==
    \/ PollOnce(SinkOutcomes, BOOLEAN)
    \/ MqttCallback

SpecHealth == InitHealth /\ [][NextHealth]_vars

\* the polling loop keeps polling
SpecHealthFair ==
    InitHealth /\ [][NextHealth]_vars
        /\ WF_vars(PollOnce(SinkOutcomes, BOOLEAN))

---------------------------------------------------------------------------
(* Claims about the session held across polls and the Wi-Fi rejoin        *)
(* (clients.py, service.py)                                                *)

\* C15: a poll that starts with a live handle and no forced reconnect
\* constructs no new handle in its first _ensure_connection, whatever the
\* handle's is_connected() probe answers
C15_ProbeNeverReplacesHandle ==
    (obs.op = "poll" /\ obs.had_handle) => ~obs.attempted

\* C16: the poll-failure handler changes the poller's
\* consecutive_connection_failures and last_connection_attempt only when the
\* rejoin was invoked and reported a new association; after a rejoin that
\* reports nothing new or raises, and after a throttled handler, both are
\* what the fetch left
C16_ResetOnlyOnNewAssociation ==
    (obs.op = "poll" /\ obs.failed)
        => (obs.handler_changed => obs.invoked /\ truthy(obs.reported))

C16_Witness ==
    /\ obs.op = "poll" /\ obs.failed /\ obs.invoked
    /\ obs.net = "already"
    /\ cpoller.consecutive_connection_failures > 0
    /\ cpoller.last_connection_attempt > 0
    /\ ~obs.handler_changed

\* C17: two rejoin invocations of the poll-failure handler are at least
\* wifi_retry_seconds (300 s) apart, whether the earlier one returned or
\* raised
C17_RejoinThrottle ==
    obs.gap >= 0 => obs.gap >= wifi_retry_seconds

C17_Witness ==
    /\ obs.op = "poll" /\ obs.failed /\ obs.invoked
    /\ obs.gap >= 0
    /\ recovery.last_wifi_error

\* C18: with connect_wifi enabled the first failed poll after construction
\* invokes the rejoin, whatever the monotonic clock reads
C18_FirstFailureRejoins ==
    (obs.op = "poll" /\ obs.failed /\ obs.fails = 1 /\ recovery.connect_wifi)
        => obs.invoked

\* C19: the poll after a failed poll whose rejoin joined the network is not
\* rejected by the backoff
C19_PollAfterRejoinNotRejected ==
    [][(obs.after_join /\ obs'.op = "poll") => ~obs'.rejected]_vars

\* C20: in the health report every component's healthy flag says that its
\* last error is absent, except Wi-Fi with connect_wifi disabled, which is
\* healthy with a detail; overall is the conjunction of the flags
C20_HealthIsProjection ==
    LET rep == get_health_report(recovery)
        c == rep.components
    IN  /\ c.powerwall.healthy = ~c.powerwall.last_error
        /\ c.influxdb.healthy = ~c.influxdb.last_error
        /\ c.mqtt.healthy = ~c.mqtt.last_error
        /\ recovery.connect_wifi => c.wifi.healthy = ~c.wifi.last_error
        /\ ~recovery.connect_wifi
               => c.wifi.healthy /\ c.wifi.detail = "Wi-Fi auto-connect disabled"
        /\ rep.overall = (c.powerwall.healthy /\ c.influxdb.healthy
                          /\ c.mqtt.healthy /\ c.wifi.healthy)

---------------------------------------------------------------------------
(* Claims about the stored result and the health report (service.py)       *)

\* C21: the health report computed right after a stored successful poll has
\* overall true and consecutive_failures 0
C21_ReportAfterSuccess ==
    (obs.op = "poll" /\ obs.stored /\ ~obs.failed)
        => /\ get_health_report(recovery).overall
           /\ recovery.consecutive_failures = 0

\* C22: the health report computed right after a stored failed poll has
\* overall false, and consecutive_failures is one more than before the poll
C22_ReportAfterFailure ==
    [][(obs'.op = "poll" /\ obs'.stored /\ obs'.failed)
          => /\ ~get_health_report(recovery').overall
             /\ recovery'.consecutive_failures
                    = recovery.consecutive_failures + 1]_vars

C22_Witness ==
    /\ obs.op = "poll" /\ obs.stored /\ obs.failed
    /\ recovery.consecutive_failures = 2
    /\ ~get_health_report(recovery).overall

C24_UnstoredPollFrame ==
    [][(obs'.op = "poll" /\ ~obs'.stored)
          => /\ recovery'.last_result = recovery.last_result
             /\ recovery'.consecutive_failures = recovery.consecutive_failures
             /\ recovery'.last_wifi_error = recovery.last_wifi_error
             /\ recovery'.last_wifi_attempt = recovery.last_wifi_attempt
             /\ cpoller'.consecutive_connection_failures
                    = cpoller.consecutive_connection_failures
             /\ cpoller'.last_connection_attempt
                    = cpoller.last_connection_attempt]_vars

---------------------------------------------------------------------------
(* Claims about the poll gate (service.py) *)

\* C25: the poller's handle and the stored result change only in steps
\* taken while _poll_lock is held
C25_MutationsInsideGate ==
    [][(svc'.powerwall # svc.powerwall \/ svc'.last_result # svc.last_result
          \/ svc'.consecutive_failures # svc.consecutive_failures)
          => poll_lock.holder # "none"]_vars

---------------------------------------------------------------------------
(* Claims about the poller's counters and the attempt time                 *)
(* (powerwall_client.py)                                                   *)

\* C27 as stated: a call of _ensure_connection that calls the constructor
\* sets _last_connection_attempt to the time of the call, whether the
\* constructor returns or raises; a call that makes no attempt leaves it
C27_EveryAttemptStamps ==
    [][last'.op = "ensure"
          => IF last'.attempted
             THEN poller'.last_connection_attempt = now
             ELSE poller'.last_connection_attempt
                      = poller.last_connection_attempt]_vars

\* C27: a call of _ensure_connection whose constructor call raises sets
\* _last_connection_attempt to the time of the call; a call whose
\* constructor call returns, and a call that makes no attempt (handle kept,
\* or rejected by the backoff), leave it unchanged
C27_FailedAttemptStamps ==
    [][last'.op = "ensure"
          => IF last'.attempted /\ last'.exc # "none"
             THEN poller'.last_connection_attempt = now
             ELSE poller'.last_connection_attempt
                      = poller.last_connection_attempt]_vars

C27_Witness ==
    /\ last.op = "ensure" /\ last.attempted /\ last.exc = "none"
    /\ poller.powerwall # NoHandle
    /\ poller.last_connection_attempt # now

\* C28: after a call of _ensure_connection that created a handle, both
\* failure counters are 0 and a handle is held
C28_SuccessResetsCounters ==
    (last.op = "ensure" /\ last.attempted /\ last.exc = "none")
        => /\ poller.consecutive_connection_failures = 0
           /\ poller.consecutive_auth_failures = 0
           /\ poller.powerwall # NoHandle

C28_Witness ==
    /\ last.op = "ensure" /\ last.attempted /\ last.exc = "none"
    /\ last.failures_before > 0
    /\ poller.consecutive_connection_failures = 0
    /\ poller.powerwall # NoHandle

\* C29: close() sets consecutive_auth_failures to 0 and leaves
\* consecutive_connection_failures and last_connection_attempt unchanged
C29_CloseFrame ==
    [][last'.op = "close"
          => /\ poller'.consecutive_auth_failures = 0
             /\ poller'.consecutive_connection_failures
                    = poller.consecutive_connection_failures
             /\ poller'.last_connection_attempt
                    = poller.last_connection_attempt]_vars

C29_Witness ==
    /\ last.op = "close"
    /\ poller.consecutive_connection_failures > 0
    /\ poller.last_connection_attempt > 0
    /\ poller.consecutive_auth_failures = 0

\* C30: a read that raises an error with both signals is handled as a
\* connection failure: the fetch ends at that read with
\* PowerwallUnavailableError and no auth failure is counted
C30_ConnectionBeforeAuth ==
    (last.read = "both" /\ last.site # "none")
        => /\ last.op = "fetch"
           /\ last.exc = Unavailable
           /\ failGen.refreshes = 0

---------------------------------------------------------------------------
(* Claims about failures during the reads, the handle held and the backoff *)
(* (powerwall_client.py)                                                   *)

\* C31: after a fetch that failed with a connection-classified error, raised
\* by the constructor or by a device read on a session already created,
\* consecutive_connection_failures is greater than 0 (so that the backoff
\* applies to the next connection attempt)
C31_ConnectionFailureCounted ==
    (/\ last.op = "fetch" /\ last.exc = Unavailable
     /\ (last.site = "none" \/ is_connection_error(last.read)))
        => poller.consecutive_connection_failures > 0

\* C32: a status or vitals read that fails with an error of neither class
\* is left absent and the fetch goes on to its next step; a fetch whose
\* power read is absent because of such an error returns no snapshot
C32_PartialDataOnlyWithoutPower ==
    /\ (last.read = "other" /\ last.site = "status")
           => (call.pc = "vitals" /\ call.status = "none")
    /\ (last.read = "other" /\ last.site = "vitals")
           => (call.pc = "build" /\ call.vitals = "none")
    /\ ~(FetchReturned /\ last.power_read = "other")

C38_AuthCountZeroBetweenFetches ==
    call.pc = "idle" => poller.consecutive_auth_failures = 0

\* C38: whenever no fetch_snapshot call is executing,
\* consecutive_auth_failures is below max_auth_failures, so force_reconnect
\* is never true at fetch entry; it is 0 after a fetch that returned or
\* raised PowerwallUnavailableError, and only a fetch that ended with another
\* exception leaves a count of 1 or 2 to the next fetch
C38_AuthCountBelowThreshold ==
    /\ call.pc = "idle" => poller.consecutive_auth_failures < max_auth_failures
    /\ (last.op = "fetch" /\ last.exc \in {"none", Unavailable})
           => poller.consecutive_auth_failures = 0

C38_Witness ==
    /\ call.pc = "idle" /\ last.op = "fetch" /\ last.exc = "other"
    /\ poller.consecutive_auth_failures = 2
    /\ poller.powerwall # NoHandle

\* the poller waits in its backoff: no handle, failures counted, time has
\* passed since the last failed attempt, and a handle can still be numbered
BackoffWaiting ==
    /\ call.pc = "idle"
    /\ poller.powerwall = NoHandle
    /\ poller.consecutive_connection_failures > 0
    /\ now > poller.last_connection_attempt
    /\ poller.generation < MaxGen

\* a fetch has just called the constructor: it returned and the reads
\* follow, or it raised at this time
AttemptMade ==
    \/ call.pc = "power"
    \/ /\ last.op = "fetch" /\ last.exc # "none" /\ last.site = "none"
       /\ poller.last_connection_attempt = now

\* a fetch ended without a read: the constructor raised or the backoff
\* rejected the call
EndedBeforeReads ==
    last.op = "fetch" /\ last.exc = Unavailable /\ last.site = "none"

---------------------------------------------------------------------------
(* Claims about the rejoin, the sinks and the health report over polls     *)
(* (service.py, clients.py)                                                *)

\* C34: the rejoin is invoked only in a poll that attempted device I/O: a
\* poll whose fetch was rejected by the backoff, with no connection attempt
\* made, invokes no rejoin
C34_RejoinOnlyAfterAttempt ==
    (obs.op = "poll" /\ obs.rejected) => ~obs.invoked

\* C36 as stated: a PollingResult has exactly one of snapshot and
\* powerwall_error, pushed_influx, published_mqtt, influx_error and
\* mqtt_error are set only with a snapshot, and a poll whose fetch failed
\* touches no sink
C36_NoSinkTouchedOnFailure ==
    LET res == recovery.last_result IN
    /\ res.present
          => /\ res.snapshot # res.powerwall_error
             /\ (res.pushed_influx \/ res.published_mqtt
                    \/ res.influx_error \/ res.mqtt_error) => res.snapshot
    /\ (obs.op = "poll" /\ obs.failed) => ~obs.bus_touched

\* C36: a PollingResult has exactly one of snapshot and powerwall_error, and
\* pushed_influx, published_mqtt, influx_error and mqtt_error are set only
\* with a snapshot; a poll whose fetch failed writes and publishes no
\* metrics (its handler does publish the availability message "offline")
C36_ResultShape ==
    LET res == recovery.last_result IN
    res.present
        => /\ res.snapshot # res.powerwall_error
           /\ (res.pushed_influx \/ res.published_mqtt
                  \/ res.influx_error \/ res.mqtt_error) => res.snapshot

C36_Witness ==
    /\ obs.op = "poll" /\ obs.failed /\ obs.stored
    /\ recovery.mqtt_enabled /\ recovery.mqtt_connected
    /\ recovery.last_result.powerwall_error
    /\ ~recovery.last_result.snapshot
    /\ ~recovery.last_result.published_mqtt
    /\ ~recovery.last_result.pushed_influx
    /\ obs.bus_touched

\* C37: published_mqtt is true in the result of a poll only if the metrics
\* were handed to a connected broker client in that poll; a publish that
\* failed, or was skipped because the client is not connected, shows as
\* mqtt_error or as published_mqtt false
C37_PublishedMeansDelivered ==
    LET res == recovery.last_result IN
    (obs.op = "poll" /\ obs.stored /\ ~obs.failed)
        => /\ res.published_mqtt
                  => (recovery.mqtt_enabled /\ recovery.mqtt_connected)
           /\ (recovery.mqtt_enabled /\ ~recovery.mqtt_connected)
                  => (res.mqtt_error \/ ~res.published_mqtt)

\* no poll fails at the device, the stored result shows no error at the
\* device or at a sink, and the broker client is connected if MQTT is enabled
PollsSucceed ==
    /\ ~(obs.op = "poll" /\ obs.failed)
    /\ ~recovery.last_result.powerwall_error
    /\ ~recovery.last_result.influx_error
    /\ ~recovery.last_result.mqtt_error
    /\ recovery.mqtt_enabled => recovery.mqtt_connected

\* C39: if from some point on every poll succeeds at the device and at every
\* enabled sink, the health report's overall flag is eventually true for
\* good: no error recorded before that point, a Wi-Fi rejoin error in
\* particular, keeps a component unhealthy
C39_HealthRecovers ==
    (<>[]PollsSucceed) => <>[](get_health_report(recovery).overall)

---------------------------------------------------------------------------
(* SpecReport: _update_state on the event loop and get_health_report on    *)
(* the health monitor's worker thread, statement by statement              *)

\* the results _poll_once_blocking hands to _update_state
PollResults ==
    {poll_failed} \cup {poll_sinks(recovery, push, publish) :
                           push \in SinkOutcomes, publish \in SinkOutcomes}

\* poll_once with store_result: _update_state stores the result
UpdateStateStore ==
    /\ UNCHANGED <<pollerVars, svcVars, envVars>>
    /\ updating.pc = "idle"
    /\ \E result \in PollResults :
         /\ ~success(result)
                => recovery.consecutive_failures < MaxPollFailures
         /\ recovery' = update_state_store(recovery, result)
         /\ updating' = [pc |-> "count", result |-> result]
    /\ UNCHANGED <<mono, cpoller, obs, monitor>>

\* _update_state sets the failure count and returns
UpdateStateCount ==
    /\ UNCHANGED <<pollerVars, svcVars, envVars>>
    /\ updating.pc = "count"
    /\ recovery' = update_state_count(recovery, updating.result)
    /\ updating' = UpdateIdle
    /\ UNCHANGED <<mono, cpoller, obs, monitor>>

\* get_health_report builds its components from the stored errors
ReportComponents ==
    /\ UNCHANGED <<pollerVars, svcVars, envVars>>
    /\ monitor.pc \in {"idle", "returned"}
    /\ \E rep \in {get_health_report(recovery)} :
         monitor' = [pc |-> "components",
                     powerwall_healthy |-> rep.components.powerwall.healthy,
                     overall |-> rep.overall,
                     consecutive_failures |-> 0]
    /\ UNCHANGED <<recVars, updating>>

\* get_health_report reads _consecutive_failures and returns the report
ReportReturn ==
    /\ UNCHANGED <<pollerVars, svcVars, envVars>>
    /\ monitor.pc = "components"
    /\ monitor' = [monitor EXCEPT
                      !.pc = "returned",
                      !.consecutive_failures = recovery.consecutive_failures]
    /\ UNCHANGED <<recVars, updating>>

NextReport ==
    \/ UpdateStateStore
    \/ UpdateStateCount
    \/ ReportComponents
    \/ ReportReturn
    \/ MqttCallback

SpecReport == InitHealth /\ [][NextReport]_vars

\* C40: a health report built while a poll cycle runs is consistent with
\* one stored outcome: its powerwall component is healthy exactly when its
\* consecutive_failures is 0
C40_ReportConsistent ==
    monitor.pc = "returned"
        => (monitor.powerwall_healthy <=> monitor.consecutive_failures = 0)

=============================================================================
